---- MODULE Spec2Model ----
(***************************************************************************)
(* Model of pikmin-aggregator (src/src/lib.rs): Aggregator::aggregate and  *)
(* the statements it sends to MySQL, for one exchange.                     *)
(*                                                                         *)
(* The database is a function from table names to table contents.  The    *)
(* source table is a bag of rows (no uniqueness on traded_at), the index   *)
(* tables are sets of timestamps (PRIMARY KEY traded_at), the result       *)
(* tables are sets of rows with a unique traded_at.  Timestamps, amounts   *)
(* and prices are small integers; the mean is kept as an exact fraction.   *)
(***************************************************************************)
EXTENDS Integers, Sequences, FiniteSets, Bags, TLC

\* ---------------------------------------------------------------- bounds
MaxTs == 2            \* timestamps are 0..MaxTs
MaxRows == 2          \* rows the source table can hold
LIMIT == 1            \* rows per batch: const LIMIT, 100000 in the code
MaxElapsed == 1       \* milliseconds between two readings of the clock: 0..MaxElapsed

\* ------------------------------------------------------ program constants
EPOCH == 0            \* the sentinel '2000-01-01 00:00:00.000'

exchange_name == "bffx"

Timestamps == 0..MaxTs
\* the <<amount, price>> of the executions the downloader appends
Trades == {<<1, 1>>, <<2, 3>>}
Rows == {[traded_at |-> t, amount |-> x[1], price |-> x[2]] :
            t \in Timestamps, x \in Trades}

VARIABLES
    db,        \* table name -> contents, for the tables that exist
    pc,        \* position of the worker inside aggregate()
    outfile,   \* contents of the OUTFILE the current stager batch transfers
    tx,        \* uncommitted work of the open transaction; after a panic or
               \* a kill, the work the rollback discarded
    dberr,     \* history: a statement of the current run returned an error
    start,     \* history: what the database held when the current run started
    staged,    \* history: contents of the index when step1() renamed it
    grown,     \* history: the source got rows since the result staging table
               \* was created
    files,     \* names of the OUTFILEs in /tmp that the clock can still
               \* produce; their milliseconds are counted from the newest one
    out_file_name, \* the name the current stager batch computed
    peer       \* the worker main() spawns for another exchange: its
               \* exchange_name, position, OUTFILE contents and transaction

vars == <<db, pc, outfile, tx, dberr, start, staged, grown, files,
          out_file_name, peer>>

\* ------------------------------------------------------------ table names
original_table == <<"trades_", exchange_name>>
target_table == <<"ref_trades_", exchange_name>>
get_step1_table_name(table_name) == <<"step1__">> \o table_name
get_step2_table_name(table_name) == <<"step2__">> \o table_name
get_temporary_table_name(table_name) == <<"tmp__">> \o table_name

\* the names of the worker of another exchange
original_table_of(exchange) == <<"trades_", exchange>>
target_table_of(exchange) == <<"ref_trades_", exchange>>

step1_table_name == get_step1_table_name(original_table)
step2_table_name == get_step2_table_name(original_table)
tmp_table_name == get_temporary_table_name(step1_table_name)

\* ------------------------------------------------------- DDL on the database
\* the table is in the database
TableExists(d, table_name) == table_name \in DOMAIN d

\* the characters of the exchange names
Chars(exchange) ==
    CASE exchange = "bffx" -> <<"b", "f", "f", "x">>
      [] exchange = "liquid" -> <<"l", "i", "q", "u", "i", "d">>
      [] exchange = "b_fx" -> <<"b", "_", "f", "x">>

\* LIKE on strings without %: same length, and every character of the
\* pattern is _ or the character of the string
LikeChars(pattern, string) ==
    /\ Len(pattern) = Len(string)
    /\ \A i \in 1..Len(pattern) : pattern[i] = "_" \/ pattern[i] = string[i]

\* <name> LIKE '<pattern>' on table names.  The prefixes of two names of
\* different kinds differ in a character that is no _ in either (ref_, step1,
\* step2, tmp__), so only the exchange names are compared by character.
Like(pattern, name) ==
    /\ Len(pattern) = Len(name)
    /\ \A i \in 1..(Len(pattern) - 1) : pattern[i] = name[i]
    /\ LikeChars(Chars(pattern[Len(pattern)]), Chars(name[Len(name)]))

\* SHOW TABLES LIKE '<table_name>'
ShowTablesLike(d, table_name) == {n \in DOMAIN d : Like(table_name, n)}

\* check_existence: the number of rows of SHOW TABLES LIKE is not 0; an Err
\* from prep_exec is turned into false
check_existence(d, table_name, err) ==
    IF err THEN FALSE ELSE ShowTablesLike(d, table_name) # {}

\* a DROP TABLE that also names the table the name was derived from
drop_table_and_base(d, table_name) ==
    [n \in (DOMAIN d) \ {table_name, original_table} |-> d[n]]

\* DROP TABLE IF EXISTS
drop_table(d, table_name) ==
    [n \in (DOMAIN d) \ {table_name} |-> d[n]]

\* CREATE TABLE (fails when the table exists)
CanCreate(d, table_name) == ~TableExists(d, table_name)
create_table(d, table_name) ==
    [n \in (DOMAIN d) \cup {table_name} |-> IF n = table_name THEN {} ELSE d[n]]

\* RENAME TABLE orig TO to (fails when orig is missing or to exists)
CanRename(d, orig, to) == TableExists(d, orig) /\ ~TableExists(d, to)
rename_table(d, orig, to) ==
    [n \in ((DOMAIN d) \ {orig}) \cup {to} |-> IF n = to THEN d[orig] ELSE d[n]]

\* replace the contents of a table
SetRows(d, table_name, rows) == [d EXCEPT ![table_name] = rows]

\* ------------------------------------------------------------ SQL helpers
Min(a, b) == IF a < b THEN a ELSE b
MaxOf(S) == CHOOSE x \in S : \A y \in S : y <= x
MinOf(S) == CHOOSE x \in S : \A y \in S : x <= y

\* the first n elements of S in ascending order (ORDER BY ... LIMIT n)
RECURSIVE FirstN(_, _)
FirstN(S, n) ==
    IF n = 0 \/ S = {} THEN {}
    ELSE {MinOf(S)} \cup FirstN(S \ {MinOf(S)}, n - 1)

\* the results a LIMIT n without ORDER BY can give on the rows S
AnyN(S, n) == {T \in SUBSET S : Cardinality(T) = Min(n, Cardinality(S))}

\* SELECT DISTINCT traded_at FROM <source>
DistinctTradedAt(src) == {r.traded_at : r \in BagToSet(src)}

\* the watermark taken from the first index entry (ORDER BY traded_at LIMIT 1)
WatermarkAscending(index) == IF index = {} THEN EPOCH ELSE MinOf(index)

\* COALESCE((SELECT traded_at FROM <index> ORDER BY traded_at DESC LIMIT 1), EPOCH)
Watermark(index) == IF index = {} THEN EPOCH ELSE MaxOf(index)

\* SELECT DISTINCT traded_at FROM <source> WHERE traded_at > <watermark>
\* ORDER BY traded_at LIMIT <LIMIT>
SelectTradedAt(src, index) ==
    FirstN({t \in DistinctTradedAt(src) : t > Watermark(index)}, LIMIT)

\* the source rows joined to index entry t (LEFT JOIN ... ON traded_at)
Joined(src, t) == {r \in BagToSet(src) : r.traded_at = t}

RECURSIVE SumAmount(_, _)
SumAmount(src, R) ==
    IF R = {} THEN 0
    ELSE LET r == CHOOSE x \in R : TRUE
         IN  src[r] * r.amount + SumAmount(src, R \ {r})

RECURSIVE SumPrice(_, _)
SumPrice(src, R) ==
    IF R = {} THEN 0
    ELSE LET r == CHOOSE x \in R : TRUE
         IN  src[r] * r.price + SumPrice(src, R \ {r})

RECURSIVE CountRows(_, _)
CountRows(src, R) ==
    IF R = {} THEN 0
    ELSE LET r == CHOOSE x \in R : TRUE
         IN  src[r] + CountRows(src, R \ {r})

RECURSIVE Gcd(_, _)
Gcd(a, b) == IF b = 0 THEN a ELSE Gcd(b, a % b)

\* an exact fraction in lowest terms
Fraction(n, d) == [num |-> n \div Gcd(n, d), den |-> d \div Gcd(n, d)]

\* Sum(<source>.amount) of the group of t
Sum(src, t) == SumAmount(src, Joined(src, t))

\* a volume-weighted mean instead of Avg(price)
AvgWeighted(src, t) ==
    LET R == Joined(src, t)
        RECURSIVE Turnover(_)
        Turnover(S) ==
            IF S = {} THEN 0
            ELSE LET r == CHOOSE x \in S : TRUE
                 IN  src[r] * r.amount * r.price + Turnover(S \ {r})
    IN  Fraction(Turnover(R), SumAmount(src, R))

\* Avg(<source>.price) of the group of t
Avg(src, t) ==
    Fraction(SumPrice(src, Joined(src, t)), CountRows(src, Joined(src, t)))

\* one row of SELECT s1.traded_at, Sum(amount), Avg(price) ... GROUP BY traded_at
AggregatedRow(src, t) ==
    [traded_at |-> t, amount |-> Sum(src, t), price |-> Avg(src, t)]

\* the keys of a result table
Keys(rows) == {r.traded_at : r \in rows}

\* result.affected_rows()
affected_rows(S) == Cardinality(S)

\* aggregate: if !self.check_existence(&step1_table_name) { self.step1(..) }
NeedsStep1(exists) == ~exists

\* the result staging table is dropped and recreated in every run
NeedsClearAlways(exists) == TRUE

\* aggregate: if !self.check_existence(&step2_table_name) { self.clear_step2_table(..) }
NeedsClear(exists) == ~exists

\* the test of the loop of step1, inverted
StagerExhaustedInverted(inserted) == inserted # 0

\* step1: if inserted == 0 { break }
StagerExhausted(inserted) == inserted = 0

\* step2: while move_aggregated_data(..) != 0 {}
AggregatorExhausted(t) == t = 0


\* format!("/tmp/table_{}_{}.txt", self.exchange_name, Utc::now().timestamp_millis())
format_out_file_name(exchange, millis) == <<"/tmp/table_", exchange, millis>>

\* the readings of Utc::now().timestamp_millis(), in milliseconds after the
\* reading that named the newest OUTFILE
Elapsed == 0..MaxElapsed

NoFile == << >>
NoTx == [ins |-> {}, del |-> {}, t |-> 0]

\* tx.commit() of a batch on the tables s1 and s2
AppliedTo(d, t, s1, s2) ==
    IF t.ins = {} /\ t.del = {} THEN d
    ELSE [d EXCEPT ![s2] = @ \cup t.ins, ![s1] = @ \ t.del]

\* tx.commit(): the rows inserted and the entries deleted take effect
Applied(d, t) == AppliedTo(d, t, step1_table_name, step2_table_name)

\* the statements of the batch sent outside the transaction (autocommit)
RolledBackNothing(d, t) == Applied(d, t)

\* the transaction is dropped or its connection is lost before the commit:
\* nothing of it takes effect
RolledBack(d, t) == d

\* no other worker was spawned
NoPeer == [exchange_name |-> "", pc |-> "absent", outfile |-> {}, tx |-> NoTx]

NoStart == [ts |-> {}, tabs |-> {}, step2 |-> {}, grown |-> FALSE]

Running == pc \notin {"idle", "finished", "crashed", "panicked"}

\* aggregate() stops here: by returning, by a panic, or with the process
Terminate(state) ==
    /\ pc' = state
    /\ tx' = tx
    /\ outfile' = {}
    /\ out_file_name' = NoFile
    /\ files' = files
    /\ peer' = peer
    /\ dberr' = FALSE
    /\ start' = NoStart

\* ------------------------------------------------------------------ Init
Init ==
    /\ db = (original_table :> EmptyBag)
    /\ pc = "idle"
    /\ outfile = {}
    /\ tx = NoTx
    /\ dberr = FALSE
    /\ start = NoStart
    /\ staged = {}
    /\ grown = TRUE
    /\ files = {}
    /\ out_file_name = NoFile
    /\ peer = NoPeer

\* ------------------------------------------------------------ environment
\* the downloader appends one execution to the source table
AppendRow ==
    /\ BagCardinality(db[original_table]) < MaxRows
    /\ \E r \in Rows :
          db' = SetRows(db, original_table, db[original_table] (+) SetToBag({r}))
    /\ grown' = TRUE
    /\ start' = [start EXCEPT !.grown = Running]
    /\ UNCHANGED <<pc, outfile, tx, dberr, staged, files, out_file_name, peer>>

\* the worker process is killed; an open transaction is rolled back
Crash ==
    /\ Running
    /\ Terminate("crashed")
    /\ db' = RolledBack(db, tx)
    /\ UNCHANGED <<staged, grown, peer>>

\* the positions whose next statement is unwrapped
StatementPcs ==
    {"step1_drop_tmp", "step1_create_tmp", "select_outfile", "load_infile",
     "step1_rename", "clear_drop", "clear_create", "tx_start", "tx_insert",
     "tx_delete", "tx_commit", "rename_target", "drop_step1"}

\* a statement whose result is unwrapped returns an error: the worker panics
StatementError ==
    /\ pc \in StatementPcs
    /\ Terminate("panicked")
    /\ db' = RolledBack(db, tx)
    /\ UNCHANGED <<staged, grown, peer>>

\* ------------------------------------------------------------- aggregate()
\* aggregate() is called
Aggregate ==
    /\ ~Running
    /\ pc' = "check_target"
    /\ start' = [ts |-> DistinctTradedAt(db[original_table]),
                 tabs |-> DOMAIN db,
                 step2 |-> IF TableExists(db, step2_table_name)
                           THEN db[step2_table_name] ELSE {},
                 grown |-> FALSE]
    /\ dberr' = FALSE
    /\ tx' = NoTx
    /\ UNCHANGED <<db, outfile, staged, grown, files, out_file_name, peer>>

\* if !self.check_existence(&self.target_table())
CheckTarget ==
    /\ pc = "check_target"
    /\ \E err \in BOOLEAN :
          /\ dberr' = (dberr \/ err)
          /\ pc' = IF check_existence(db, target_table, err)
                   THEN "finish" ELSE "check_step1"
    /\ UNCHANGED <<db, outfile, tx, start, staged, grown, files, out_file_name, peer>>

\* if !self.check_existence(&step1_table_name)
CheckStep1 ==
    /\ pc = "check_step1"
    /\ \E err \in BOOLEAN :
          /\ dberr' = (dberr \/ err)
          /\ pc' = IF NeedsStep1(check_existence(db, step1_table_name, err))
                   THEN "step1_drop_tmp" ELSE "check_step2"
    /\ UNCHANGED <<db, outfile, tx, start, staged, grown, files, out_file_name, peer>>

\* step1: self.drop_table(&tmp_table_name)
Step1DropTmp ==
    /\ pc = "step1_drop_tmp"
    /\ db' = drop_table(db, tmp_table_name)
    /\ pc' = "step1_create_tmp"
    /\ UNCHANGED <<outfile, tx, dberr, start, staged, grown, files, out_file_name, peer>>

\* step1: CREATE TABLE tmp (traded_at TIMESTAMP(3) NOT NULL PRIMARY KEY)
Step1CreateTmp ==
    /\ pc = "step1_create_tmp"
    /\ CanCreate(db, tmp_table_name)
    /\ db' = create_table(db, tmp_table_name)
    /\ pc' = "name_outfile"
    /\ UNCHANGED <<outfile, tx, dberr, start, staged, grown, files, out_file_name, peer>>

\* insert_all_traded_at: let out_file_name = format!(.., Utc::now().timestamp_millis())
NameOutfile ==
    /\ pc = "name_outfile"
    /\ \E millis \in Elapsed :
          out_file_name' = format_out_file_name(exchange_name, millis)
    /\ pc' = "select_outfile"
    /\ UNCHANGED <<db, outfile, tx, dberr, start, staged, grown, files, peer>>

\* insert_all_traded_at: SELECT DISTINCT traded_at ... INTO OUTFILE; the file
\* written is the newest one from now on
SelectIntoOutfile ==
    /\ pc = "select_outfile"
    /\ out_file_name \notin files
    /\ outfile' = SelectTradedAt(db[original_table], db[tmp_table_name])
    /\ out_file_name' = format_out_file_name(exchange_name, 0)
    /\ files' = {format_out_file_name(exchange_name, 0)}
    /\ pc' = "load_infile"
    /\ UNCHANGED <<db, tx, dberr, start, staged, grown, peer>>

\* SELECT ... INTO OUTFILE refuses to write a file that exists: the unwrap
\* panics
OutfileExists ==
    /\ pc = "select_outfile"
    /\ out_file_name \in files
    /\ Terminate("panicked")
    /\ db' = RolledBack(db, tx)
    /\ UNCHANGED <<staged, grown, peer>>

\* insert_all_traded_at: LOAD DATA INFILE ... INTO TABLE tmp, and the test
\* of the loop of step1 on the number of rows loaded
LoadDataInfile ==
    /\ pc = "load_infile"
    /\ outfile \cap db[tmp_table_name] = {}
    /\ db' = SetRows(db, tmp_table_name, db[tmp_table_name] \cup outfile)
    /\ pc' = IF StagerExhausted(affected_rows(outfile))
             THEN "step1_rename" ELSE "name_outfile"
    /\ outfile' = {}
    /\ out_file_name' = NoFile
    /\ UNCHANGED <<tx, dberr, start, staged, grown, files, peer>>

\* step1: self.rename_table(&tmp_table_name, &table_name)
Step1Rename ==
    /\ pc = "step1_rename"
    /\ CanRename(db, tmp_table_name, step1_table_name)
    /\ db' = rename_table(db, tmp_table_name, step1_table_name)
    /\ staged' = db[tmp_table_name]
    /\ pc' = "check_step2"
    /\ UNCHANGED <<outfile, tx, dberr, start, grown, files, out_file_name, peer>>

\* if !self.check_existence(&step2_table_name)
CheckStep2 ==
    /\ pc = "check_step2"
    /\ \E err \in BOOLEAN :
          /\ dberr' = (dberr \/ err)
          /\ pc' = IF NeedsClear(check_existence(db, step2_table_name, err))
                   THEN "clear_drop" ELSE "step2"
    /\ UNCHANGED <<db, outfile, tx, start, staged, grown, files, out_file_name, peer>>

\* clear_step2_table: self.drop_table(&s2_table_name)
ClearDrop ==
    /\ pc = "clear_drop"
    /\ db' = drop_table(db, step2_table_name)
    /\ pc' = "clear_create"
    /\ UNCHANGED <<outfile, tx, dberr, start, staged, grown, files, out_file_name, peer>>

\* clear_step2_table: CREATE TABLE step2 (traded_at ... PRIMARY KEY, amount, price)
ClearCreate ==
    /\ pc = "clear_create"
    /\ CanCreate(db, step2_table_name)
    /\ db' = create_table(db, step2_table_name)
    /\ grown' = FALSE
    /\ pc' = "step2"
    /\ UNCHANGED <<outfile, tx, dberr, start, staged, files, out_file_name, peer>>

\* self.step2(&self.original_table(), &step1_table_name, &step2_table_name)
Step2 ==
    /\ pc = "step2"
    /\ pc' = "tx_start"
    /\ UNCHANGED <<db, outfile, tx, dberr, start, staged, grown, files, out_file_name, peer>>

\* move_aggregated_data: self.pool.start_transaction(false, None, None)
StartTransaction ==
    /\ pc = "tx_start"
    /\ tx' = NoTx
    /\ pc' = "tx_insert"
    /\ UNCHANGED <<db, outfile, dberr, start, staged, grown, files, out_file_name, peer>>

\* move_aggregated_data: INSERT INTO s2 SELECT ... FROM s1 LEFT JOIN orig
\* ... GROUP BY traded_at LIMIT ?   (no ORDER BY: any LIMIT groups)
InsertAggregated ==
    /\ pc = "tx_insert"
    /\ \E S \in AnyN(db[step1_table_name], LIMIT) :
          /\ \A t \in S : Joined(db[original_table], t) # {}
          /\ S \cap Keys(db[step2_table_name]) = {}
          /\ tx' = [tx EXCEPT
                      !.ins = {AggregatedRow(db[original_table], t) : t \in S},
                      !.t = affected_rows(S)]
    /\ pc' = "tx_delete"
    /\ UNCHANGED <<db, outfile, dberr, start, staged, grown, files, out_file_name, peer>>

\* the INSERT picks a timestamp the result table already holds: duplicate
\* entry for the PRIMARY KEY, the unwrap panics and the transaction is lost
InsertDuplicate ==
    /\ pc = "tx_insert"
    /\ \E S \in AnyN(db[step1_table_name], LIMIT) :
          S \cap Keys(db[step2_table_name]) # {}
    /\ Terminate("panicked")
    /\ db' = RolledBack(db, tx)
    /\ UNCHANGED <<staged, grown, peer>>

\* move_aggregated_data: DELETE FROM s1 WHERE 1=1 LIMIT ?  (no ORDER BY)
DeleteUsed ==
    /\ pc = "tx_delete"
    /\ \E D \in AnyN(db[step1_table_name], LIMIT) :
          tx' = [tx EXCEPT !.del = D]
    /\ pc' = "tx_commit"
    /\ UNCHANGED <<db, outfile, dberr, start, staged, grown, files, out_file_name, peer>>

\* move_aggregated_data: tx.commit(), Ok(t), and the test of the loop of step2
Commit ==
    /\ pc = "tx_commit"
    /\ db' = Applied(db, tx)
    /\ pc' = IF AggregatorExhausted(tx.t) THEN "rename_target" ELSE "tx_start"
    /\ tx' = NoTx
    /\ UNCHANGED <<outfile, dberr, start, staged, grown, files, out_file_name, peer>>

\* self.rename_table(&step2_table_name, &self.target_table())
RenameTarget ==
    /\ pc = "rename_target"
    /\ CanRename(db, step2_table_name, target_table)
    /\ db' = rename_table(db, step2_table_name, target_table)
    /\ pc' = "drop_step1"
    /\ UNCHANGED <<outfile, tx, dberr, start, staged, grown, files, out_file_name, peer>>

\* a RENAME TABLE whose new name is taken fails: the unwrap panics
RenameConflict ==
    /\ \/ pc = "step1_rename" /\ ~CanRename(db, tmp_table_name, step1_table_name)
       \/ pc = "rename_target" /\ ~CanRename(db, step2_table_name, target_table)
    /\ Terminate("panicked")
    /\ UNCHANGED <<db, staged, grown, peer>>

\* self.drop_table(&step1_table_name)
DropStep1 ==
    /\ pc = "drop_step1"
    /\ db' = drop_table(db, step1_table_name)
    /\ pc' = "finish"
    /\ UNCHANGED <<outfile, tx, dberr, start, staged, grown, files, out_file_name, peer>>

\* trace!("finish: {}"): aggregate() returns
Finish ==
    /\ pc = "finish"
    /\ Terminate("finished")
    /\ grown' = TRUE
    /\ staged' = IF TableExists(db, step1_table_name) THEN staged ELSE {}
    /\ UNCHANGED db

\* one step of the worker
Step ==
    \/ CheckTarget
    \/ CheckStep1
    \/ Step1DropTmp
    \/ Step1CreateTmp
    \/ NameOutfile
    \/ SelectIntoOutfile
    \/ OutfileExists
    \/ LoadDataInfile
    \/ Step1Rename
    \/ CheckStep2
    \/ ClearDrop
    \/ ClearCreate
    \/ Step2
    \/ StartTransaction
    \/ InsertAggregated
    \/ InsertDuplicate
    \/ DeleteUsed
    \/ Commit
    \/ RenameTarget
    \/ RenameConflict
    \/ DropStep1
    \/ Finish

Next ==
    \/ AppendRow
    \/ Crash
    \/ StatementError
    \/ Aggregate
    \/ Step

Spec == Init /\ [][Next]_vars

\* the worker keeps executing its statements
LiveSpec == Spec /\ WF_vars(Step)

\* the program when no SHOW TABLES statement returns an error
ReliableSpec == Init /\ [][Next /\ ~dberr']_vars

\* ------------------------------------------- the worker of another exchange
\* the exchanges main() can spawn a second worker for
PeerExchanges == {"liquid", "b_fx"}

\* the statements of aggregate() for the worker w of wherever it stands:
\* the pairs <<database, worker>> its next statement can produce
WorkerSteps(d, w) ==
    LET orig == original_table_of(w.exchange_name)
        target == target_table_of(w.exchange_name)
        s1 == get_step1_table_name(orig)
        s2 == get_step2_table_name(orig)
        tmp == get_temporary_table_name(s1)
        to(p) == [w EXCEPT !.pc = p]
        \* a statement that names a table the database does not hold fails
        missing(names) == ~(names \subseteq DOMAIN d)
    IN  CASE w.pc = "check_target" ->
                {<<d, to(IF check_existence(d, target, err)
                         THEN "finish" ELSE "check_step1")>> : err \in BOOLEAN}
          [] w.pc = "check_step1" ->
                {<<d, to(IF NeedsStep1(check_existence(d, s1, err))
                         THEN "step1_drop_tmp" ELSE "check_step2")>> : err \in BOOLEAN}
          [] w.pc = "step1_drop_tmp" ->
                {<<drop_table(d, tmp), to("step1_create_tmp")>>}
          [] w.pc = "step1_create_tmp" ->
                IF CanCreate(d, tmp)
                THEN {<<create_table(d, tmp), to("select_outfile")>>}
                ELSE {<<d, to("panicked")>>}
          [] w.pc \in {"select_outfile", "load_infile"} /\ missing({orig, tmp}) ->
                {<<d, to("panicked")>>}
          [] w.pc \in {"tx_insert", "tx_delete"} /\ missing({orig, s1, s2}) ->
                {<<d, to("panicked")>>}
          [] w.pc = "select_outfile" /\ ~missing({orig, tmp}) ->
                {<<d, [w EXCEPT !.pc = "load_infile",
                                !.outfile = SelectTradedAt(d[orig], d[tmp])]>>}
          [] w.pc = "load_infile" /\ ~missing({orig, tmp}) ->
                {<<SetRows(d, tmp, d[tmp] \cup w.outfile),
                   [w EXCEPT !.pc = IF StagerExhausted(affected_rows(w.outfile))
                                    THEN "step1_rename" ELSE "select_outfile",
                             !.outfile = {}]>>}
          [] w.pc = "step1_rename" ->
                IF CanRename(d, tmp, s1)
                THEN {<<rename_table(d, tmp, s1), to("check_step2")>>}
                ELSE {<<d, to("panicked")>>}
          [] w.pc = "check_step2" ->
                {<<d, to(IF NeedsClear(check_existence(d, s2, err))
                         THEN "clear_drop" ELSE "step2")>> : err \in BOOLEAN}
          [] w.pc = "clear_drop" ->
                {<<drop_table(d, s2), to("clear_create")>>}
          [] w.pc = "clear_create" ->
                IF CanCreate(d, s2)
                THEN {<<create_table(d, s2), to("step2")>>}
                ELSE {<<d, to("panicked")>>}
          [] w.pc = "step2" -> {<<d, to("tx_start")>>}
          [] w.pc = "tx_start" -> {<<d, [w EXCEPT !.pc = "tx_insert", !.tx = NoTx]>>}
          [] w.pc = "tx_insert" /\ ~missing({orig, s1, s2}) ->
                {<<d, IF S \cap Keys(d[s2]) = {}
                      THEN [w EXCEPT
                              !.pc = "tx_delete",
                              !.tx = [ins |-> {AggregatedRow(d[orig], t) : t \in S},
                                      del |-> {},
                                      t |-> affected_rows(S)]]
                      ELSE to("panicked")>> : S \in AnyN(d[s1], LIMIT)}
          [] w.pc = "tx_delete" /\ ~missing({orig, s1, s2}) ->
                {<<d, [w EXCEPT !.pc = "tx_commit", !.tx.del = D]>> :
                    D \in AnyN(d[s1], LIMIT)}
          [] w.pc = "tx_commit" ->
                {<<AppliedTo(d, w.tx, s1, s2),
                   [w EXCEPT !.pc = IF AggregatorExhausted(w.tx.t)
                                    THEN "rename_target" ELSE "tx_start",
                             !.tx = NoTx]>>}
          [] w.pc = "rename_target" ->
                IF CanRename(d, s2, target)
                THEN {<<rename_table(d, s2, target), to("drop_step1")>>}
                ELSE {<<d, to("panicked")>>}
          [] w.pc = "drop_step1" -> {<<drop_table(d, s1), to("finish")>>}
          [] w.pc = "finish" -> {<<d, to("finished")>>}
          [] OTHER -> {}

\* main: s.spawn(.. prep.aggregate() ..) for the other exchange
PeerAggregate ==
    /\ peer.pc = "idle"
    /\ peer' = [peer EXCEPT !.pc = "check_target"]
    /\ UNCHANGED <<db, pc, outfile, tx, dberr, start, staged, grown, files,
                   out_file_name>>

\* the other worker executes its next statement
PeerStep ==
    /\ \E next \in WorkerSteps(db, peer) :
          /\ db' = next[1]
          /\ peer' = next[2]
    /\ UNCHANGED <<pc, outfile, tx, dberr, start, staged, grown, files,
                   out_file_name>>

\* main() with two exchanges: both sources are filled and do not change
PoolInit ==
    /\ \E exchange \in PeerExchanges :
          /\ peer = [NoPeer EXCEPT !.exchange_name = exchange, !.pc = "idle"]
          /\ LET rows == {r \in Rows : r.amount = 1 /\ r.traded_at > EPOCH}
             IN  db = (original_table :> SetToBag(rows))
                      @@ (original_table_of(exchange) :>
                            SetToBag({r \in rows : r.traded_at = MaxTs}))
    /\ pc = "idle"
    /\ outfile = {}
    /\ tx = NoTx
    /\ dberr = FALSE
    /\ start = NoStart
    /\ staged = {}
    /\ grown = TRUE
    /\ files = {}
    /\ out_file_name = NoFile

PoolNext ==
    \/ Aggregate
    \/ Step
    \/ StatementError
    \/ PeerAggregate
    \/ PeerStep

PoolSpec == PoolInit /\ [][PoolNext]_vars

TypeOK ==
    /\ pc \in {"idle", "finished", "crashed", "panicked", "check_target",
               "check_step1", "check_step2", "step2", "finish", "name_outfile"}
             \cup StatementPcs
    /\ original_table \in DOMAIN db
    /\ dberr \in BOOLEAN

\* ===================================================================== claims
\* the target was published by the run that is executing
Published ==
    /\ Running
    /\ TableExists(db, target_table)
    /\ target_table \notin start.tabs

\* the tables the pipeline owns
PipelineTables(d) == [n \in (DOMAIN d) \ {original_table} |-> d[n]]

\* reference sum and count, by folding a function of weights
RECURSIVE Total(_)
Total(w) ==
    IF DOMAIN w = {} THEN 0
    ELSE LET r == CHOOSE x \in DOMAIN w : TRUE
         IN  w[r] + Total([x \in (DOMAIN w) \ {r} |-> w[x]])

RefRows(src, t) == {r \in DOMAIN src : r.traded_at = t}
RefAmount(src, t) == Total([r \in RefRows(src, t) |-> src[r] * r.amount])
RefPrice(src, t) == Total([r \in RefRows(src, t) |-> src[r] * r.price])
RefCount(src, t) == Total([r \in RefRows(src, t) |-> src[r]])

\* row is the sum of the amounts and the unweighted mean of the prices of
\* the source rows with its timestamp
RowCorrect(src, row) ==
    /\ RefCount(src, row.traded_at) > 0
    /\ row.amount = RefAmount(src, row.traded_at)
    /\ row.price.den > 0
    /\ row.price.num * RefCount(src, row.traded_at)
          = row.price.den * RefPrice(src, row.traded_at)

\* C1: when a run of aggregate() returns, every distinct traded_at the source
\* held when the run started, whatever its value, has exactly one row in the
\* target.
Completeness ==
    pc = "finish" =>
        /\ TableExists(db, target_table)
        /\ \A t \in start.ts :
              Cardinality({r \in db[target_table] : r.traded_at = t}) = 1

\* C2 as claimed: when the source did not change during the run that publishes
\* the target, every row of the target is the sum and the unweighted mean of
\* the source rows with its timestamp.
AggregateCorrectness ==
    (Published /\ ~start.grown) =>
        \A row \in db[target_table] : RowCorrect(db[original_table], row)

\* C2 as amended: when the source did not change since the result staging
\* table was created (in this run or in the interrupted run it resumes), every
\* row of the published target is the sum and the unweighted mean of the
\* source rows with its timestamp.
AggregateCorrectnessSinceStaging ==
    (Published /\ ~grown) =>
        \A row \in db[target_table] : RowCorrect(db[original_table], row)

\* C2 witness: a published target holds the aggregate of two executions
\* <<1, 1>> and <<2, 3>> of one timestamp: amount 3, price 2.
AggregateCorrectnessWitness ==
    /\ Published
    /\ ~grown
    /\ \E row \in db[target_table] :
          /\ row.amount = 3
          /\ row.price = [num |-> 2, den |-> 1]

\* C3: the target a run publishes holds exactly one row for every timestamp
\* that the completed timestamp index contained.
NoPartialTarget ==
    Published =>
        /\ Keys(db[target_table]) = staged
        /\ Cardinality(db[target_table]) = Cardinality(staged)

\* C4: a run that starts from a surviving index and a result staging table
\* holding the rows of the batches committed before the interruption
\* publishes the target an uninterrupted run over the same source publishes.
CrashResumeSafety ==
    (/\ Published
     /\ {step1_table_name, step2_table_name} \subseteq start.tabs
     /\ start.step2 # {}
     /\ ~grown) =>
        db[target_table] = {AggregatedRow(db[original_table], t) : t \in staged}

\* C5: whenever the index and the result staging table both exist, their
\* timestamps are disjoint and together are the timestamps the stager staged.
NoDoubleCounting ==
    (TableExists(db, step1_table_name) /\ TableExists(db, step2_table_name)) =>
        /\ Keys(db[step2_table_name]) \cap db[step1_table_name] = {}
        /\ Keys(db[step2_table_name]) \cup db[step1_table_name] = staged

\* C6: a run that starts when the target exists creates, drops, renames and
\* modifies no table.
IdempotentRerun ==
    [][(Running /\ target_table \in start.tabs) =>
          PipelineTables(db') = PipelineTables(db)]_vars

\* C7: a run in which a statement returned an error, the existence checks
\* included, publishes no target.
ErrorAbortsRun == dberr => ~Published

\* C8 as claimed: a result staging table left by a prior run is empty when
\* the first aggregation batch of the run starts.
StagingCleared ==
    (/\ pc = "step2"
     /\ target_table \notin start.tabs
     /\ step2_table_name \in start.tabs) =>
        db[step2_table_name] = {}

\* C8 as amended: a result staging table left by a prior run still holds the
\* rows it held at the start of the run when the first aggregation batch
\* starts; it is dropped and recreated empty only when an existence check of
\* the run failed.
StagingKept ==
    (pc = "step2" /\ step2_table_name \in start.tabs) =>
        \/ db[step2_table_name] = start.step2
        \/ dberr /\ db[step2_table_name] = {}

\* C8 witness: a run without errors reaches step2() with the rows a prior
\* run left in the result staging table.
StagingKeptWitness ==
    /\ pc = "step2"
    /\ ~dberr
    /\ target_table \notin start.tabs
    /\ step2_table_name \in start.tabs
    /\ start.step2 # {}
    /\ db[step2_table_name] = start.step2

\* C9: when a run returns, the target exists and no intermediate table is
\* left.
NoIntermediateLeft ==
    pc = "finish" =>
        /\ TableExists(db, target_table)
        /\ ~TableExists(db, step1_table_name)
        /\ ~TableExists(db, tmp_table_name)
        /\ ~TableExists(db, step2_table_name)

\* C10: every run ends: unless the worker is killed or a statement fails, it
\* returns, and with the target published; the stager loop leaves at the first
\* load of zero rows and the aggregator loop at the first batch of zero rows.
Termination ==
    /\ Running ~> pc \in {"finished", "crashed", "panicked"}
    /\ [](pc = "finish" => TableExists(db, target_table))
    /\ [][(pc = "load_infile" /\ pc' \in {"name_outfile", "step1_rename"})
            => (pc' = "step1_rename" <=> outfile = {})]_vars
    /\ [][(pc = "tx_commit" /\ pc' \in {"tx_start", "rename_target"})
            => (pc' = "rename_target" <=> tx.ins = {})]_vars

\* C10 witness: a run returned after two stager batches and two aggregator
\* batches did work.
TerminationWitness ==
    /\ pc = "finished"
    /\ TableExists(db, target_table)
    /\ Cardinality(db[target_table]) = 2

\* C12: no combination of artifacts left by aborted runs dooms every later
\* run: when a run is not executing, the target is absent and the index and
\* the result staging table exist, the first aggregation batch of the next
\* run can insert without meeting a timestamp the staging table holds already.
ResumeMakesProgress ==
    (/\ ~Running
     /\ ~TableExists(db, target_table)
     /\ TableExists(db, step1_table_name)
     /\ TableExists(db, step2_table_name)) =>
        \E S \in AnyN(db[step1_table_name], LIMIT) :
            S \cap Keys(db[step2_table_name]) = {}

\* C13: in every aggregation batch the index entries deleted are exactly the
\* timestamps of the rows inserted, and at most LIMIT rows are inserted.
BatchDeletesInserted ==
    pc = "tx_commit" =>
        /\ tx.del = Keys(tx.ins)
        /\ Cardinality(tx.ins) <= LIMIT

\* C18: whenever the result staging table exists, the completed index exists
\* and the target does not.
ArtifactOrder ==
    TableExists(db, step2_table_name) =>
        /\ TableExists(db, step1_table_name)
        /\ ~TableExists(db, target_table)

\* C19: no step of the pipeline, in a run that returns, panics or is killed,
\* changes, drops or renames the source table: only the downloader writes it.
SourceFrame ==
    [][AppendRow \/ (/\ TableExists(db', original_table)
                     /\ db'[original_table] = db[original_table])]_vars

\* C19 witness: a run has staged, aggregated and published two timestamps,
\* dropped the index and returned, and the source still holds its two rows.
SourceFrameWitness ==
    /\ pc = "finished"
    /\ BagCardinality(db[original_table]) = 2
    /\ TableExists(db, target_table)
    /\ Keys(db[target_table]) = DistinctTradedAt(db[original_table])
    /\ Cardinality(db[target_table]) = 2
    /\ ~TableExists(db, step1_table_name)

\* C16: every stager batch selects at most LIMIT timestamps, all in the source
\* and all greater than every entry of the index under construction; no source
\* timestamp between two timestamps of the batch, or after the whole index
\* and before a timestamp of the batch, is left out; the batch is loaded into the index it was selected
\* against.
StagerBatching ==
    /\ [][(pc = "select_outfile" /\ pc' = "load_infile") =>
            LET src == DistinctTradedAt(db[original_table])
                index == db[tmp_table_name]
            IN  /\ Cardinality(outfile') <= LIMIT
                /\ outfile' \subseteq src
                /\ \A t \in outfile' : \A u \in index : t > u
                /\ \A u \in src \ outfile' :
                      /\ ~\E a, b \in outfile' : a < u /\ u < b
                      /\ ~\E b \in outfile' :
                            u > EPOCH /\ (\A a \in index : a < u) /\ u < b]_vars
    /\ [][(pc = "load_infile" /\ pc' \in {"name_outfile", "step1_rename"}) =>
            /\ outfile \cap db[tmp_table_name] = {}
            /\ db'[tmp_table_name] = db[tmp_table_name] \cup outfile]_vars

\* C16 witness: a second batch is about to be loaded into a non-empty index
\* while rows were appended to the source during the run.
StagerBatchingWitness ==
    /\ pc = "load_infile"
    /\ outfile # {}
    /\ db[tmp_table_name] # {}
    /\ start.grown

\* the positions inside step1() and inside step2()
StagerPcs ==
    {"step1_drop_tmp", "step1_create_tmp", "name_outfile", "select_outfile",
     "load_infile", "step1_rename"}
AggregatorPcs == {"step2", "tx_start", "tx_insert", "tx_delete", "tx_commit"}

\* C15: the index gets its final name only by the rename that follows a load
\* of zero rows; while the stager runs the final name does not exist; no
\* aggregation batch runs without the final name; a run that enters the
\* stager starts from an empty tmp table.
IndexOnlyWhenComplete ==
    /\ [][(~TableExists(db, step1_table_name) /\ TableExists(db', step1_table_name))
            => /\ pc = "step1_rename"
               /\ db'[step1_table_name] = db[tmp_table_name]]_vars
    /\ [][(pc # "step1_rename" /\ pc' = "step1_rename")
            => pc = "load_infile" /\ outfile = {}]_vars
    /\ [](pc \in StagerPcs => ~TableExists(db, step1_table_name))
    /\ [](pc \in AggregatorPcs => TableExists(db, step1_table_name))
    /\ [][(pc = "step1_create_tmp" /\ pc' = "name_outfile")
            => db'[tmp_table_name] = {}]_vars

\* the positions inside a batch transaction that is open
OpenTxPcs == {"tx_insert", "tx_delete", "tx_commit"}

\* C14: a batch transaction that fails or is interrupted before its commit
\* leaves every table as it was, and it ends the run: the next statement is
\* the first of a new call of aggregate().
TransactionRollsBack ==
    /\ [][(pc \in OpenTxPcs /\ pc' \in {"panicked", "crashed"}) => db' = db]_vars
    /\ [][(pc \in {"panicked", "crashed"})
            => /\ pc' \in {"panicked", "crashed", "check_target"}
               /\ PipelineTables(db') = PipelineTables(db)]_vars

\* C14 witness: a run ended after the INSERT and the DELETE of a batch and
\* before its commit; the entries it deleted are in the index and the rows it
\* inserted are not in the result staging table.
TransactionRollsBackWitness ==
    /\ pc \in {"panicked", "crashed"}
    /\ tx.ins # {}
    /\ tx.del # {}
    /\ TableExists(db, step1_table_name)
    /\ TableExists(db, step2_table_name)
    /\ tx.del \subseteq db[step1_table_name]
    /\ tx.ins \cap db[step2_table_name] = {}

\* C17: the name a stager batch computes for its OUTFILE is the name of no
\* file written by another batch, also when the clock shows the millisecond
\* it showed for that batch.
OutfileNameUnique == pc = "select_outfile" => out_file_name \notin files

\* the tables of the pipeline of an exchange, with their contents
TablesOf(d, exchange) ==
    LET names == {target_table_of(exchange),
                  get_step1_table_name(original_table_of(exchange)),
                  get_step2_table_name(original_table_of(exchange)),
                  get_temporary_table_name(
                      get_step1_table_name(original_table_of(exchange)))}
    IN  [n \in names \cap DOMAIN d |-> d[n]]

\* C11: a worker changes no pipeline table of the other exchange, the answer
\* of its existence check for the target depends on its own target only, and
\* whatever the other worker does, panics included, a worker that returns has
\* published its target.
WorkerIsolation ==
    /\ [][(peer' # peer) =>
            TablesOf(db', exchange_name) = TablesOf(db, exchange_name)]_vars
    /\ [][(peer' = peer) =>
            TablesOf(db', peer.exchange_name) = TablesOf(db, peer.exchange_name)]_vars
    /\ [][(peer.pc = "check_target" /\ peer'.pc = "finish") =>
            TableExists(db, target_table_of(peer.exchange_name))]_vars
    /\ [](peer.pc = "finished" =>
            TableExists(db, target_table_of(peer.exchange_name)))

\* WorkerSteps is the same program as the actions of the worker: every
\* statement the worker of exchange_name completes is a step WorkerSteps
\* allows from the same database (the computation of the OUTFILE name is no
\* statement, and panics are left to StatementError).
WorkerView(p, o, t) ==
    [exchange_name |-> exchange_name,
     pc |-> IF p = "name_outfile" THEN "select_outfile" ELSE p,
     outfile |-> o,
     tx |-> t]
SameStatements ==
    [][(Running /\ pc' \notin {pc, "panicked", "crashed"} /\ pc # "name_outfile")
          => <<db', WorkerView(pc', outfile', tx')>>
                \in WorkerSteps(db, WorkerView(pc, outfile, tx))]_vars

====
